---- MODULE Spec2Model ----
(***************************************************************************)
(* Academic Achievers (src/app.py): a Flask application over two SQLite    *)
(* tables, users and scholarships.  The request handlers of app.py are     *)
(* actions over the tables, the per-client sessions and the request and    *)
(* response at hand; the string, float and date functions they rely on     *)
(* are operators over sequences of one-character strings.                  *)
(*                                                                         *)
(* Python values are records tagged with their Python type: None is        *)
(* [type |-> "NoneType"], a float is [type |-> "float", val |-> n] with n  *)
(* in tenths (35 is 3.5), a str is [type |-> "str", val |-> s] with s a    *)
(* sequence of characters.  NOT NULL text columns and form fields are      *)
(* plain character sequences; a missing form field is the empty sequence,  *)
(* the default every request.form.get(..., "") of app.py gives it.         *)
(*                                                                         *)
(* Five specifications share the variables:                                *)
(*   SpecChecklist  seeding from JSON and the checklist read paths         *)
(*   SpecElig       POST /eligibility and POST /api/eligibility, asked     *)
(*                  the same criteria over the same table                  *)
(*   SpecBrowse     GET /scholarships: filters and deadline sort           *)
(*   SpecAdmin      signup, login, admin_login, logout, add and edit       *)
(*                  requests of several sessions, one request at a time    *)
(*   SpecEdit       two edit_scholarship POST requests whose database      *)
(*                  steps interleave                                       *)
(***************************************************************************)
EXTENDS Integers, Sequences, FiniteSets, TLC

VARIABLES
    users,          \* table users: set of rows [id, email, password_hash, is_admin]
    scholarships,   \* table scholarships: sequence of rows in rowid order
    session,        \* session[c]: the Flask session of client c
    authed,         \* history: authed[c] iff c logged in as an is_admin=1 user since its last logout
    request,        \* the request being handled / last handled
    response,       \* the response of the last handled request
    seed,           \* content of data/seed_scholarships.json
    conn            \* conn[p]: the state of request p's own database connection

vars == <<users, scholarships, session, authed, request, response, seed, conn>>

(***************************************************************************)
(* Python values                                                           *)
(***************************************************************************)
None == [type |-> "NoneType"]

PyFloat(n) == [type |-> "float", val |-> n]

PyStr(s) == [type |-> "str", val |-> s]

PyList(l) == [type |-> "list", val |-> l]

PyBool(b) == [type |-> "bool", val |-> b]

\* The float value the model writes for nan: every comparison with it is False.
NaN == [type |-> "float", nan |-> TRUE]

LF == "\n"

CR == "\r"

\* str.isspace() on one character, for the characters of the model's alphabet.
IsSpace(c) == c \in {" ", LF, CR}

\* str.strip(): leading and trailing whitespace removed.
RECURSIVE LStrip(_)
LStrip(s) == IF s # <<>> /\ IsSpace(Head(s)) THEN LStrip(Tail(s)) ELSE s

RECURSIVE RStrip(_)
RStrip(s) ==
    IF s # <<>> /\ IsSpace(s[Len(s)]) THEN RStrip(SubSeq(s, 1, Len(s) - 1)) ELSE s

Strip(s) == RStrip(LStrip(s))

\* str.lower() on one character of the model's alphabet.
LowerChar(c) ==
    CASE c = "A" -> "a"
      [] c = "B" -> "b"
      [] c = "U" -> "u"
      [] c = "S" -> "s"
      [] OTHER -> c

Lower(s) == [i \in 1..Len(s) |-> LowerChar(s[i])]

\* Python's `a in b` on strings: a is a contiguous substring of b.
Contains(b, a) ==
    \E i \in 0..(Len(b) - Len(a)) : SubSeq(b, i + 1, i + Len(a)) = a

\* Truthiness of a str: non-empty.
Truthy(s) == s # <<>>

(***************************************************************************)
(* Checklist storage: "\n".join on write, splitlines() on read             *)
(***************************************************************************)
\* "\n".join(items)
RECURSIVE Join(_)
Join(items) ==
    IF items = <<>> THEN <<>>
    ELSE IF Len(items) = 1 THEN items[1]
    ELSE items[1] \o <<LF>> \o Join(Tail(items))

\* str.splitlines(): breaks at "\n", "\r" and "\r\n" (one break); no empty
\* last line after a final break.  `cur` is the line being read.
RECURSIVE SplitFrom(_, _)
SplitFrom(s, cur) ==
    IF s = <<>> THEN (IF cur = <<>> THEN <<>> ELSE <<cur>>)
    ELSE IF Head(s) = CR /\ Len(s) >= 2 /\ s[2] = LF
         THEN <<cur>> \o SplitFrom(Tail(Tail(s)), <<>>)
    ELSE IF Head(s) \in {LF, CR} THEN <<cur>> \o SplitFrom(Tail(s), <<>>)
    ELSE SplitFrom(Tail(s), Append(cur, Head(s)))

\* splitlines(keepends=True): each line keeps its line break.
RECURSIVE SplitKeepEnds(_, _)
SplitKeepEnds(s, cur) ==
    IF s = <<>> THEN (IF cur = <<>> THEN <<>> ELSE <<cur>>)
    ELSE IF Head(s) = CR /\ Len(s) >= 2 /\ s[2] = LF
         THEN <<cur \o <<CR, LF>> >> \o SplitKeepEnds(Tail(Tail(s)), <<>>)
    ELSE IF Head(s) \in {LF, CR}
         THEN <<Append(cur, Head(s))>> \o SplitKeepEnds(Tail(s), <<>>)
    ELSE SplitKeepEnds(Tail(s), Append(cur, Head(s)))

SplitlinesKeepEnds(s) == SplitKeepEnds(s, <<>>)

Splitlines(s) == SplitFrom(s, <<>>)

\* (r["checklist"] or "").splitlines() if r["checklist"] else []
ReadChecklist(col) ==
    IF col = None \/ col.val = <<>> THEN <<>> ELSE Splitlines(col.val)

(***************************************************************************)
(* Table scholarships                                                      *)
(***************************************************************************)
\* One row; the columns university, tags and link are never read by any
\* condition of app.py and are left out.
Row(id, name, country, level, field, deadline, checklist, min_gpa, intl, img, doc) ==
    [id |-> id, name |-> name, country |-> country, level |-> level,
     field |-> field, deadline |-> deadline, checklist |-> checklist,
     min_gpa |-> min_gpa, is_international_only |-> intl,
     image_filename |-> img, brochure_filename |-> doc]

\* INTEGER PRIMARY KEY AUTOINCREMENT, with no DELETE anywhere in app.py.
NextId(table) == Len(table) + 1

\* SELECT * FROM scholarships WHERE id=?  ... fetchone()
FetchById(table, sid) ==
    IF \E i \in 1..Len(table) : table[i].id = sid
    THEN table[CHOOSE i \in 1..Len(table) : table[i].id = sid]
    ELSE None

(***************************************************************************)
(* seed_scholarships_from_json and the checklist read paths                *)
(***************************************************************************)
MaxItems == 3

MaxItemLen == 1

ItemChars == {"a", LF, CR}

SeqsUpTo(S, n) == UNION {[1..k -> S] : k \in 0..n}

ChecklistItems == SeqsUpTo(ItemChars, MaxItemLen)

Checklists == SeqsUpTo(ChecklistItems, MaxItems)

\* One entry of seed_scholarships.json; checklist = None is a missing key.
SeedEntry(name, checklist) ==
    [name |-> name, country |-> <<"U", "S">>, deadline |-> None,
     checklist |-> checklist]

\* The files the model starts from: no file, an empty array, one entry, or
\* a fixed first entry followed by one entry.
SeedData ==
    {<<>>, <<SeedEntry(<<"a">>, None)>>}
    \cup {<<SeedEntry(<<"a">>, PyList(c))>> : c \in Checklists}
    \cup {<<SeedEntry(<<"b">>, PyList(<<<<"a">>>>)), SeedEntry(<<"a">>, PyList(c))>> :
            c \in Checklists}

\* exists is os.path.exists(path), data is json.load(f).
SeedFiles ==
    {[exists |-> FALSE, data |-> <<>>]} \cup {[exists |-> TRUE, data |-> d] : d \in SeedData}

\* s.get("checklist", [])
SeedChecklist(s) == IF s.checklist = None THEN <<>> ELSE s.checklist.val

\* The row one pass of the loop at lines 104-112 inserts.
SeedRow(table, s) ==
    Row(NextId(table), s.name, s.country, None, None, s.deadline,
        PyStr(Join(SeedChecklist(s))), None, 0, None, None)

RECURSIVE SeedInsert(_, _)
SeedInsert(table, data) ==
    IF data = <<>> THEN table
    ELSE SeedInsert(Append(table, SeedRow(table, Head(data))), Tail(data))

seed_scholarships_from_json ==
    /\ Len(scholarships) = 0
    /\ seed.exists
    /\ scholarships' = SeedInsert(scholarships, seed.data)
    /\ UNCHANGED <<users, session, authed, request, response, seed, conn>>

\* The JSON item api_scholarships builds for one row (lines 207-218).
ApiItem(r) ==
    [id |-> r.id, name |-> r.name, country |-> r.country,
     deadline |-> r.deadline, checklist |-> ReadChecklist(r.checklist)]

api_scholarships ==
    /\ request' = [route |-> "api_scholarships"]
    /\ response' = [status |-> 200,
                    items |-> [i \in 1..Len(scholarships) |-> ApiItem(scholarships[i])]]
    /\ UNCHANGED <<users, scholarships, session, authed, seed, conn>>

\* dict(r) with s["checklist"] replaced by the list (lines 231-234, 264-265).
WithChecklist(r) == [r EXCEPT !.checklist = ReadChecklist(r.checklist)]

scholarship_detail ==
    \E sid \in 1..(Len(scholarships) + 1) :
        LET r == FetchById(scholarships, sid) IN
        /\ request' = [route |-> "scholarship_detail", sid |-> sid]
        /\ response' = IF r = None
                       THEN [status |-> 302, location |-> "scholarships"]
                       ELSE [status |-> 200, s |-> WithChecklist(r)]
        /\ UNCHANGED <<users, scholarships, session, authed, seed, conn>>

NoRequest == [route |-> "none"]

NoResponse == [status |-> 0]

InitChecklist ==
    /\ users = {}
    /\ scholarships = <<>>
    /\ session = <<>>
    /\ authed = <<>>
    /\ request = NoRequest
    /\ response = NoResponse
    /\ seed \in SeedFiles
    /\ conn = <<>>

NextChecklist ==
    \/ seed_scholarships_from_json
    \/ api_scholarships
    \/ scholarship_detail

SpecChecklist == InitChecklist /\ [][NextChecklist]_vars

(***************************************************************************)
(* C6: checklist round trip                                                *)
(***************************************************************************)
\* The checklist the last response shows for the row seeded from seed.data[i].
ReadBack(i) ==
    IF request.route = "api_scholarships" THEN response.items[i].checklist
    ELSE response.s.checklist

\* The rows the last response shows, when it is a checklist read.
ReadRows ==
    IF request.route = "api_scholarships" THEN 1..Len(response.items)
    ELSE IF request.route = "scholarship_detail" /\ response.status = 200
    THEN {request.sid}
    ELSE {}

HasLineBreak(item) == \E k \in 1..Len(item) : item[k] \in {LF, CR}

\* The sequences join/splitlines can carry: no item holds a line break and
\* the last item is not empty.
Carried(items) ==
    /\ \A k \in 1..Len(items) : ~HasLineBreak(items[k])
    /\ items # <<>> => items[Len(items)] # <<>>

\* C6 as stated: every sequence of checklist items stored by
\* seed_scholarships_from_json is read back identical by the read paths.
C6_RoundTripEverySequence ==
    \A i \in ReadRows : ReadBack(i) = SeedChecklist(seed.data[i])

\* C6 amended: a stored sequence of checklist items is read back identical
\* exactly when none of its items holds a line break and its last item is
\* not empty; so every sequence of non-empty single-line items, and the
\* empty or missing sequence, round-trips (the latter to the empty sequence).
C6_RoundTripCarried ==
    \A i \in ReadRows :
        (ReadBack(i) = SeedChecklist(seed.data[i])) <=> Carried(SeedChecklist(seed.data[i]))

\* A three-item checklist with an empty middle item was seeded and read
\* back as stored.
C6_Witness ==
    \E i \in ReadRows :
        /\ SeedChecklist(seed.data[i]) = << <<"a">>, <<>>, <<"a">> >>
        /\ ReadBack(i) = << <<"a">>, <<>>, <<"a">> >>

(***************************************************************************)
(* float(): the parse of a GPA text                                        *)
(***************************************************************************)
ValueError == [type |-> "ValueError"]

IsDigit(c) == c \in {"0", "1", "2", "3", "4", "5", "6", "7", "8", "9"}

DigitVal(c) ==
    CASE c = "0" -> 0 [] c = "1" -> 1 [] c = "2" -> 2 [] c = "3" -> 3
      [] c = "4" -> 4 [] c = "5" -> 5 [] c = "6" -> 6 [] c = "7" -> 7
      [] c = "8" -> 8 [] c = "9" -> 9

\* float(s) for a str s, on the literals of at most one integer digit and
\* one fraction digit ("3", "3.", "3.5", ".5") and "nan"; float() itself
\* ignores surrounding whitespace.  The value is in tenths.  Anything else
\* the model writes raises ValueError.
FloatOfStr(raw) ==
    LET s == Strip(raw) IN
    IF Lower(s) = <<"n", "a", "n">> THEN NaN
    ELSE IF Len(s) = 1 /\ IsDigit(s[1]) THEN PyFloat(10 * DigitVal(s[1]))
    ELSE IF Len(s) = 2 /\ IsDigit(s[1]) /\ s[2] = "." THEN PyFloat(10 * DigitVal(s[1]))
    ELSE IF Len(s) = 2 /\ s[1] = "." /\ IsDigit(s[2]) THEN PyFloat(DigitVal(s[2]))
    ELSE IF Len(s) = 3 /\ IsDigit(s[1]) /\ s[2] = "." /\ IsDigit(s[3])
         THEN PyFloat(10 * DigitVal(s[1]) + DigitVal(s[3]))
    ELSE ValueError

\* float(v) for a Python value v: a float is itself, a str is parsed, None
\* raises (TypeError, written ValueError: both are caught or fatal alike).
Float(v) ==
    IF v.type = "float" THEN v
    ELSE IF v.type = "str" THEN FloatOfStr(v.val)
    ELSE ValueError

\* a < b on floats; False when either is nan.
FloatLt(a, b) == a # NaN /\ b # NaN /\ a.val < b.val

(***************************************************************************)
(* Eligibility Matcher: eligibility (form) and api_eligibility (JSON)      *)
(***************************************************************************)
\* The WHERE clause both handlers build (lines 479-492, 526-539):
\* "1=1", then one exact comparison per truthy criterion.  A NULL column
\* never equals a parameter.
ColumnEq(col, param) == col # None /\ col.val = param

\* The WHERE clause under a case-insensitive collation.
WhereMatchesNoCase(r, country, level, field, is_international) ==
    /\ Truthy(country) => Lower(r.country) = Lower(country)
    /\ Truthy(level) => (r.level # None /\ Lower(r.level.val) = Lower(level))
    /\ Truthy(field) => (r.field # None /\ Lower(r.field.val) = Lower(field))
    /\ is_international => r.is_international_only = 1

WhereMatches(r, country, level, field, is_international) ==
    /\ Truthy(country) => r.country = country
    /\ Truthy(level) => ColumnEq(r.level, level)
    /\ Truthy(field) => ColumnEq(r.field, field)
    /\ is_international => r.is_international_only = 1

SelectWhere(table, country, level, field, is_international) ==
    SelectSeq(table, LAMBDA r : WhereMatches(r, country, level, field, is_international))

\* The gate with <= for <.
FormGateSkipsLe(gpa, r) ==
    gpa # None /\ r.min_gpa # None /\ ~FloatLt(Float(r.min_gpa), gpa)

\* Lines 497-502: the row is skipped iff both values are present and
\* gpa < float(r["min_gpa"]); min_gpa is a REAL column, float() of it cannot raise.
FormGateSkips(gpa, r) ==
    gpa # None /\ r.min_gpa # None /\ FloatLt(gpa, Float(r.min_gpa))

\* POST /eligibility, lines 471-503, on the form fields.
EligibilityPost(table, form) ==
    LET country == Strip(form.country)
        level == Strip(form.level)
        field == Strip(form.field)
        gpa_raw == Strip(form.gpa)
        gpa == IF Truthy(gpa_raw) THEN FloatOfStr(gpa_raw) ELSE None
        is_international == (form.is_international = <<"o", "n">>)
        rows == SelectWhere(table, country, level, field, is_international)
    IN  IF gpa = ValueError
        THEN [status |-> 500, error |-> "ValueError", results |-> <<>>]
        ELSE [status |-> 200, error |-> "",
              results |-> SelectSeq(rows, LAMBDA r : ~FormGateSkips(gpa, r))]

\* Lines 546-552: float(gpa) may raise; the except clause keeps the row.
ApiGateSkips(gpa, r) ==
    /\ gpa # None
    /\ r.min_gpa # None
    /\ Float(gpa) # ValueError
    /\ FloatLt(Float(gpa), Float(r.min_gpa))

\* The JSON object of one result (lines 554-568).
ApiResult(r) ==
    [id |-> r.id, name |-> r.name, country |-> r.country, level |-> r.level,
     field |-> r.field, deadline |-> r.deadline, min_gpa |-> r.min_gpa,
     is_international_only |-> r.is_international_only]

\* bool(v) for the JSON values the model sends as is_international.
PyTruthy(v) == v # None /\ v.val = TRUE

\* POST /api/eligibility, lines 516-570, on the JSON body.
ApiEligibility(table, data) ==
    LET country == Strip(data.country)
        level == Strip(data.level)
        field == Strip(data.field)
        gpa == data.gpa
        is_international == PyTruthy(data.is_international)
        rows == SelectWhere(table, country, level, field, is_international)
        kept == SelectSeq(rows, LAMBDA r : ~ApiGateSkips(gpa, r))
    IN  [status |-> 200, error |-> "",
         results |-> [i \in 1..Len(kept) |-> ApiResult(kept[i])]]

\* The criteria a client asks about, and the bodies that carry them.
MaxEligRows == 2

DigitChar(d) ==
    CASE d = 0 -> "0" [] d = 1 -> "1" [] d = 2 -> "2" [] d = 3 -> "3"
      [] d = 4 -> "4" [] d = 5 -> "5" [] d = 6 -> "6" [] d = 7 -> "7"
      [] d = 8 -> "8" [] d = 9 -> "9"

\* The text a form field carries for a GPA value: "" when absent, the
\* decimal text of a number, the text itself otherwise.
GpaFormText(v) ==
    IF v = None THEN <<>>
    ELSE IF v.type = "float" THEN <<DigitChar(v.val \div 10), ".", DigitChar(v.val % 10)>>
    ELSE v.val

\* request.form as eligibility reads it (lines 472-477).
FormOf(crit) ==
    [country |-> crit.country, level |-> crit.level, field |-> crit.field,
     gpa |-> GpaFormText(crit.gpa),
     is_international |-> IF crit.is_international THEN <<"o", "n">> ELSE <<>>]

\* request.get_json() as api_eligibility reads it (lines 516-522).
JsonOf(crit) ==
    [country |-> crit.country, level |-> crit.level, field |-> crit.field,
     gpa |-> crit.gpa, is_international |-> PyBool(crit.is_international)]

US == <<"U", "S">>

CountryCriteria == {<<>>, US, <<"u", "s">>, <<"U">>, <<" ", "U", "S">>, <<" ">>}

LevelCriteria == {<<>>, <<"B">>}

FieldCriteria == {<<>>, <<"A">>}

GpaCriteria ==
    {None, PyFloat(30), PyFloat(35), PyFloat(40), PyStr(<<"3", ".", "2">>),
     PyStr(<<"x">>), PyStr(<<" ">>), PyStr(<<"n", "a", "n">>)}

Criteria ==
    [country : CountryCriteria, level : LevelCriteria, field : FieldCriteria,
     gpa : GpaCriteria, is_international : BOOLEAN]

\* The listings the eligibility stores are made of (id is set by position).
EligPool ==
    {Row(0, <<"a">>, US, PyStr(<<"B">>), PyStr(<<"A">>), None, PyStr(<<>>),
         PyFloat(35), 1, None, None),
     Row(0, <<"b">>, US, None, None, None, PyStr(<<>>), None, 0, None, None),
     Row(0, <<"a">>, <<"C", "A">>, PyStr(<<"B">>), PyStr(<<>>), None, PyStr(<<>>),
         PyFloat(30), 0, None, None),
     Row(0, <<"b">>, US, PyStr(<<"b">>), PyStr(<<"A">>), None, PyStr(<<>>),
         PyFloat(35), 0, None, None)}

\* A table holding the rows of `rows` in order, ids 1, 2, ...
TableOf(rows) == [i \in 1..Len(rows) |-> [rows[i] EXCEPT !.id = i]]

eligibility ==
    /\ request.route = "eligibility"
    /\ response.form = [status |-> 0]
    /\ response' = [response EXCEPT !.form = EligibilityPost(scholarships, FormOf(request.crit))]
    /\ UNCHANGED <<users, scholarships, session, authed, request, seed, conn>>

api_eligibility ==
    /\ request.route = "eligibility"
    /\ response.api = [status |-> 0]
    /\ response' = [response EXCEPT !.api = ApiEligibility(scholarships, JsonOf(request.crit))]
    /\ UNCHANGED <<users, scholarships, session, authed, request, seed, conn>>

InitElig ==
    /\ users = {}
    /\ scholarships \in {TableOf(rows) : rows \in SeqsUpTo(EligPool, MaxEligRows)}
    /\ session = <<>>
    /\ authed = <<>>
    /\ request \in {[route |-> "eligibility", crit |-> c] : c \in Criteria}
    /\ response = [form |-> [status |-> 0], api |-> [status |-> 0]]
    /\ seed = [exists |-> FALSE, data |-> <<>>]
    /\ conn = <<>>

NextElig == eligibility \/ api_eligibility

SpecElig == InitElig /\ [][NextElig]_vars

(***************************************************************************)
(* C1, C2, C3, C5: the Eligibility Matcher                                 *)
(***************************************************************************)
Channels == {"form", "api"}

Done(ch) == response[ch] # [status |-> 0]

\* The ids of the listings a channel's response holds.
ResultIds(ch) == {response[ch].results[i].id : i \in 1..Len(response[ch].results)}

TableRows == {scholarships[i] : i \in 1..Len(scholarships)}

\* The GPA the caller supplied is absent, or a number.
GpaAbsent == request.crit.gpa = None

GpaNumeric == ~GpaAbsent /\ Float(request.crit.gpa) # ValueError

\* The listing passes the criteria other than the GPA.
PassesOthers(r) ==
    WhereMatches(r, Strip(request.crit.country), Strip(request.crit.level),
                 Strip(request.crit.field), request.crit.is_international)

\* C1: with the caller GPA absent or a number, in both flows a listing that
\* passes the other criteria is left out of the result iff the caller GPA
\* and the listing's min_gpa are both present and callerGpa < min_gpa.
C1_GpaGate ==
    \A ch \in Channels :
        (Done(ch) /\ (GpaAbsent \/ GpaNumeric)) =>
            /\ response[ch].status = 200
            /\ \A r \in TableRows :
                PassesOthers(r) =>
                    ((r.id \notin ResultIds(ch)) <=>
                        (/\ GpaNumeric
                         /\ r.min_gpa # None
                         /\ FloatLt(Float(request.crit.gpa), r.min_gpa)))

\* Both flows answered a caller GPA of 3.0 by leaving out a listing with
\* min_gpa 3.5 and keeping one with min_gpa 3.0 and one with none.
C1_Witness ==
    /\ Done("form") /\ Done("api")
    /\ request.crit.gpa = PyFloat(30)
    /\ \E r1, r2 \in TableRows :
        /\ PassesOthers(r1) /\ PassesOthers(r2)
        /\ r1.min_gpa = PyFloat(35) /\ r2.min_gpa = PyFloat(30)
        /\ \A ch \in Channels : r1.id \notin ResultIds(ch) /\ r2.id \in ResultIds(ch)

\* C2: eligibility and api_eligibility return the same listings for the
\* same criteria, and neither fails where the other succeeds.
C2_SameAnswerOnBothChannels ==
    (Done("form") /\ Done("api")) =>
        /\ response.form.status = response.api.status
        /\ ResultIds("form") = ResultIds("api")

\* C3: a caller GPA that does not parse as a number never makes the request
\* fail: it completes and returns every listing passing the other criteria.
C3_MalformedGpaNeverFails ==
    \A ch \in Channels :
        (Done(ch) /\ ~GpaAbsent /\ ~GpaNumeric) =>
            /\ response[ch].status = 200
            /\ ResultIds(ch) = {r.id : r \in {x \in TableRows : PassesOthers(x)}}

\* The listing's column equals the supplied value exactly, when one is supplied.
ExactColumn(col, supplied) == supplied # <<>> => (col # None /\ col.val = supplied)

\* The conjunction of C5 over the values as supplied.
ConjunctionAsSupplied(r) ==
    /\ request.crit.country # <<>> => r.country = request.crit.country
    /\ ExactColumn(r.level, request.crit.level)
    /\ ExactColumn(r.field, request.crit.field)
    /\ request.crit.is_international => r.is_international_only = 1

\* The same over the supplied values with surrounding whitespace removed.
ConjunctionAsTrimmed(r) ==
    /\ Strip(request.crit.country) # <<>> => r.country = Strip(request.crit.country)
    /\ ExactColumn(r.level, Strip(request.crit.level))
    /\ ExactColumn(r.field, Strip(request.crit.field))
    /\ request.crit.is_international => r.is_international_only = 1

\* C5 as stated: without a GPA the result is exactly the listings whose
\* country, level and field equal the supplied values exactly and that are
\* international-only when that is asked.
C5_ExactConjunctionAsSupplied ==
    \A ch \in Channels :
        (Done(ch) /\ GpaAbsent) =>
            ResultIds(ch) = {r.id : r \in {x \in TableRows : ConjunctionAsSupplied(x)}}

\* C5 amended: the result is exactly the listings whose country, level and
\* field equal the supplied values with leading and trailing whitespace
\* removed (case-sensitive, not substring), for every criterion that is not
\* empty after that, and that are international-only when internationalOnly
\* is true; with a GPA supplied the result is a subset of these.
C5_ExactConjunctionTrimmed ==
    \A ch \in Channels :
        Done(ch) =>
            LET all == {r.id : r \in {x \in TableRows : ConjunctionAsTrimmed(x)}} IN
            /\ ResultIds(ch) \subseteq all
            /\ GpaAbsent => (response[ch].status = 200 /\ ResultIds(ch) = all)

\* Both flows answered country "US" with internationalOnly by some but not
\* all of the stored listings.
C5_Witness ==
    /\ Done("form") /\ Done("api")
    /\ GpaAbsent
    /\ request.crit.country = US
    /\ request.crit.is_international
    /\ \A ch \in Channels : ResultIds(ch) # {} /\ Cardinality(ResultIds(ch)) < Len(scholarships)

(***************************************************************************)
(* GET /scholarships: text filter, country filter, deadline sort           *)
(***************************************************************************)
\* A datetime is <<proleptic Gregorian ordinal, second of day, microsecond>>.
DatetimeMax == <<3652059, 86399, 999999>>

DatetimeMin == <<1, 0, 0>>

Midnight(ordinal) == <<ordinal, 0, 0>>

\* The deadline texts of the model.
D_0001_01_01 == <<"0", "0", "0", "1", "-", "0", "1", "-", "0", "1">>

D_2023_12_31 == <<"2", "0", "2", "3", "-", "1", "2", "-", "3", "1">>

D_2024_05_01 == <<"2", "0", "2", "4", "-", "0", "5", "-", "0", "1">>

D_2024_5_1 == <<"2", "0", "2", "4", "-", "5", "-", "1">>

D_9999_12_31 == <<"9", "9", "9", "9", "-", "1", "2", "-", "3", "1">>

D_2024_13_01 == <<"2", "0", "2", "4", "-", "1", "3", "-", "0", "1">>

D_soon == <<"s", "o", "o", "n">>

\* datetime.strptime(s, "%Y-%m-%d") on the deadline texts of the model; any
\* other text raises ValueError, None raises TypeError, and parse_date
\* answers None for both (lines 242-246).
parse_date(s) ==
    IF s = None THEN None
    ELSE CASE s.val = D_0001_01_01 -> [type |-> "datetime", val |-> Midnight(1)]
           [] s.val = D_2023_12_31 -> [type |-> "datetime", val |-> Midnight(738885)]
           [] s.val = D_2024_05_01 -> [type |-> "datetime", val |-> Midnight(739007)]
           [] s.val = D_2024_5_1 -> [type |-> "datetime", val |-> Midnight(739007)]
           [] s.val = D_9999_12_31 -> [type |-> "datetime", val |-> Midnight(3652059)]
           [] OTHER -> None

\* a < b on datetimes.
DatetimeLt(a, b) ==
    \/ a[1] < b[1]
    \/ a[1] = b[1] /\ a[2] < b[2]
    \/ a[1] = b[1] /\ a[2] = b[2] /\ a[3] < b[3]

\* key=lambda s: parse_date(s["deadline"]) or datetime.max  (line 249)
KeyAsc(s) ==
    IF parse_date(s.deadline) = None THEN DatetimeMax ELSE parse_date(s.deadline).val

\* key=lambda s: parse_date(s["deadline"]) or datetime.min  (line 252)
KeyDesc(s) ==
    IF parse_date(s.deadline) = None THEN DatetimeMin ELSE parse_date(s.deadline).val

Reverse(items) == [i \in 1..Len(items) |-> items[Len(items) + 1 - i]]

\* list.sort computes every key once and sorts the [key, item] pairs.
Decorate(items, desc) ==
    [i \in 1..Len(items) |->
        [key |-> IF desc THEN KeyDesc(items[i]) ELSE KeyAsc(items[i]), item |-> items[i]]]

Undecorate(pairs) == [i \in 1..Len(pairs) |-> pairs[i].item]

\* x put into the key-sorted `sorted` after every element whose key is not greater.
RECURSIVE InsertAfterEqual(_, _)
InsertAfterEqual(sorted, x) ==
    IF sorted = <<>> THEN <<x>>
    ELSE IF DatetimeLt(x.key, Head(sorted).key) THEN <<x>> \o sorted
    ELSE <<Head(sorted)>> \o InsertAfterEqual(Tail(sorted), x)

\* The sort itself: ascending by key and stable.
RECURSIVE StableSort(_)
StableSort(pairs) ==
    IF pairs = <<>> THEN <<>>
    ELSE InsertAfterEqual(StableSort(SubSeq(pairs, 1, Len(pairs) - 1)), pairs[Len(pairs)])

\* A descending sort made of an ascending sort and one reversal.
SortDeadlineDescUnstable(items) == Reverse(Undecorate(StableSort(Decorate(items, TRUE))))

\* items.sort(key=..., reverse=True): the list is reversed, sorted ascending
\* and stable, and reversed again, so equal keys keep their order (line 251).
SortDeadlineDesc(items) ==
    Reverse(Undecorate(StableSort(Decorate(Reverse(items), TRUE))))

\* items.sort(key=...) (line 249)
SortDeadlineAsc(items) == Undecorate(StableSort(Decorate(items, FALSE)))

\* The text filter with the query compared as typed (no lower()).
TextFilterCaseSensitive(items, q) ==
    IF Truthy(q) THEN SelectSeq(items, LAMBDA s : Contains(s.name, q)) ELSE items

\* if q: items = [s for s in items if q in s["name"].lower()]  (lines 237-238)
TextFilter(items, q) ==
    IF Truthy(q) THEN SelectSeq(items, LAMBDA s : Contains(Lower(s.name), q)) ELSE items

\* if country: items = [... if country in s["country"].lower()]  (lines 239-240)
CountryFilter(items, country) ==
    IF Truthy(country)
    THEN SelectSeq(items, LAMBDA s : Contains(Lower(s.country), country))
    ELSE items

\* The handler, lines 224-255, on the query-string arguments.
ScholarshipsGet(table, args) ==
    LET q == Lower(Strip(args.q))
        country == Lower(Strip(args.country))
        items == [i \in 1..Len(table) |-> WithChecklist(table[i])]
        filtered == CountryFilter(TextFilter(items, q), country)
    IN  IF args.sort = "deadline_asc" THEN SortDeadlineAsc(filtered)
        ELSE IF args.sort = "deadline_desc" THEN SortDeadlineDesc(filtered)
        ELSE filtered

MaxBrowseRows == 3

BrowseRow(name, country, deadline) ==
    Row(0, name, country, None, None, deadline, PyStr(<<>>), None, 0, None, None)

\* The listings the browse stores are made of (id is set by position).
BrowsePool ==
    {BrowseRow(<<"A", "b">>, US, PyStr(D_2024_05_01)),
     BrowseRow(<<"b">>, US, None),
     BrowseRow(<<"a", "B">>, <<"C", "A">>, PyStr(D_0001_01_01)),
     BrowseRow(<<"A", "b">>, US, PyStr(D_soon)),
     BrowseRow(<<"b">>, <<"C", "A">>, PyStr(D_2024_5_1)),
     BrowseRow(<<"B", "a">>, US, PyStr(D_2023_12_31)),
     BrowseRow(<<"a">>, US, PyStr(D_9999_12_31)),
     BrowseRow(<<"a">>, US, PyStr(D_2024_13_01))}

QueryArgs ==
    {<<>>, <<"a", "b">>, <<"A", "B">>, <<"B">>, <<"S">>, <<" ">>, <<" ", "a">>}

CountryArgs == {<<>>, <<"u">>, <<" ", "C", "a">>}

SortArgs == {"", "deadline_asc", "deadline_desc", "name"}

BrowseArgs == [q : QueryArgs, country : CountryArgs, sort : SortArgs]

scholarships_list ==
    /\ request.route = "scholarships"
    /\ response = [status |-> 0]
    /\ response' = [status |-> 200,
                    scholarships |-> ScholarshipsGet(scholarships, request.args)]
    /\ UNCHANGED <<users, scholarships, session, authed, request, seed, conn>>

InitBrowse ==
    /\ users = {}
    /\ scholarships \in {TableOf(rows) : rows \in SeqsUpTo(BrowsePool, MaxBrowseRows)}
    /\ session = <<>>
    /\ authed = <<>>
    /\ request \in {[route |-> "scholarships", args |-> a] : a \in BrowseArgs}
    /\ response = [status |-> 0]
    /\ seed = [exists |-> FALSE, data |-> <<>>]
    /\ conn = <<>>

NextBrowse == scholarships_list

SpecBrowse == InitBrowse /\ [][NextBrowse]_vars

(***************************************************************************)
(* C4, C7, C9: the scholarships listing                                    *)
(***************************************************************************)
Listed == request.route = "scholarships" /\ response.status = 200

Result == response.scholarships

Sorted == request.args.sort \in {"deadline_asc", "deadline_desc"}

\* The listing's deadline parses as YYYY-MM-DD.
Parsed(s) == parse_date(s.deadline) # None

DateOf(s) == parse_date(s.deadline).val

\* C4: under both deadline sorts every listing whose deadline is absent or
\* does not parse comes after every listing whose deadline parses, and the
\* parsed deadlines are in non-decreasing (asc) or non-increasing (desc) order.
C4_UnparsableAfterParsed ==
    (Listed /\ Sorted) =>
        \A i, j \in 1..Len(Result) :
            i < j =>
                /\ ~(~Parsed(Result[i]) /\ Parsed(Result[j]))
                /\ (Parsed(Result[i]) /\ Parsed(Result[j])) =>
                    IF request.args.sort = "deadline_asc"
                    THEN ~DatetimeLt(DateOf(Result[j]), DateOf(Result[i]))
                    ELSE ~DatetimeLt(DateOf(Result[i]), DateOf(Result[j]))

\* The listing passes the request's country filter.
PassesCountry(s) ==
    LET c == Lower(Strip(request.args.country)) IN
    c = <<>> \/ Contains(Lower(s.country), c)

ListedIds == {Result[i].id : i \in 1..Len(Result)}

\* C7 as stated: a q equal to a listing's name in any letter case lists
\* that listing, and a q that is in no stored name (case-insensitively)
\* lists nothing.
C7_TextFilterAsTyped ==
    Listed =>
        /\ \A s \in TableRows :
            (Lower(request.args.q) = Lower(s.name) /\ PassesCountry(s)) => s.id \in ListedIds
        /\ (\A s \in TableRows : ~Contains(Lower(s.name), Lower(request.args.q)))
            => Result = <<>>

\* C7 amended: a q equal to a listing's name in any letter case lists that
\* listing (when it passes the country filter), and a q that, with leading
\* and trailing whitespace removed, is not empty and is in no stored name
\* (case-insensitively) lists nothing.
C7_TextFilterTrimmed ==
    Listed =>
        /\ \A s \in TableRows :
            (Lower(request.args.q) = Lower(s.name) /\ PassesCountry(s)) => s.id \in ListedIds
        /\ (/\ Strip(request.args.q) # <<>>
            /\ \A s \in TableRows : ~Contains(Lower(s.name), Lower(Strip(request.args.q))))
            => Result = <<>>

\* q = "AB" listed a listing named "Ab" and left another listing out.
C7_Witness ==
    /\ Listed
    /\ request.args.q = <<"A", "B">>
    /\ \E s \in TableRows : s.name = <<"A", "b">> /\ s.id \in ListedIds
    /\ \E s \in TableRows : s.id \notin ListedIds

\* C9: under both deadline sorts two listings with the same parsed deadline,
\* or both without one, keep the order of the store read (ascending id);
\* with any other sort value the listing keeps the store's order.
C9_StableSort ==
    Listed =>
        \A i, j \in 1..Len(Result) :
            (/\ i < j
             /\ Sorted => parse_date(Result[i].deadline) = parse_date(Result[j].deadline))
                => Result[i].id < Result[j].id

\* A descending sort moved a listing forward and kept two listings of one
\* date in store order.
C9_Witness ==
    /\ Listed
    /\ request.args.sort = "deadline_desc"
    /\ \E i, j \in 1..Len(Result) :
        /\ i < j /\ Parsed(Result[i])
        /\ Result[i].deadline # Result[j].deadline
        /\ parse_date(Result[i].deadline) = parse_date(Result[j].deadline)
        /\ Result[i].id < Result[j].id
    /\ \E k, l \in 1..Len(Result) : k < l /\ Result[k].id > Result[l].id

(***************************************************************************)
(* Sessions, signup, login, admin_login, logout                            *)
(***************************************************************************)
MaxClients == 2

Clients == 1..MaxClients

\* session.clear(): no key is set.
ClearedSession ==
    [logged_in |-> FALSE, user_id |-> 0, user_email |-> <<>>, is_admin |-> 0]

\* session["user_id"], session["user_email"], session["is_admin"] set.
SessionOf(id, email, is_admin) ==
    [logged_in |-> TRUE, user_id |-> id, user_email |-> email, is_admin |-> is_admin]

\* generate_password_hash / check_password_hash: a hash checks against the
\* password it was made from and no other.
generate_password_hash(password) == [hash_of |-> password]

check_password_hash(hash, password) == hash.hash_of = password

AdminEmail == <<"a">>

\* The users table after seed_admin (lines 80-90).
SeededUsers ==
    {[id |-> 1, email |-> AdminEmail,
      password_hash |-> generate_password_hash("admin123"), is_admin |-> 1]}

\* What the clients of the model type into the signup and login forms.
EmailInputs == {<<"A", " ">>, <<"u">>}

SignupPasswords == {"secret1", "short"}

LoginPasswords == {"admin123", "secret1"}

\* SELECT * FROM users WHERE email=?
UsersByEmail(email) == {u \in users : u.email = email}

\* admin_required with the is_admin test left out.
AdminAllowedAnyUser(sess) == sess.logged_in

\* admin_required, lines 139-141: the handler runs iff current_user() is
\* not None and its is_admin (session.get("is_admin", 0)) is truthy.
AdminAllowed(sess) == sess.logged_in /\ sess.is_admin # 0

signup ==
    \E c \in Clients, e \in EmailInputs, password \in SignupPasswords :
        LET email == Lower(Strip(e)) IN
        /\ request' = [route |-> "signup", client |-> c, method |-> "POST"]
        /\ IF Len(password) < 6
           THEN /\ response' = [status |-> 200, location |-> "signup.html",
                                error |-> "Password must be at least 6 characters."]
                /\ UNCHANGED <<users, session, authed>>
           ELSE IF UsersByEmail(email) # {}
           THEN /\ response' = [status |-> 200, location |-> "signup.html",
                                error |-> "Email already registered."]
                /\ UNCHANGED <<users, session, authed>>
           ELSE LET id == Cardinality(users) + 1 IN
                /\ users' = users \cup
                        {[id |-> id, email |-> email,
                          password_hash |-> generate_password_hash(password),
                          is_admin |-> 0]}
                /\ session' = [session EXCEPT ![c] = SessionOf(id, email, 0)]
                /\ response' = [status |-> 302, location |-> "home", error |-> ""]
                /\ UNCHANGED authed
        /\ UNCHANGED <<scholarships, seed, conn>>

login ==
    \E c \in Clients, e \in EmailInputs, password \in LoginPasswords :
        LET email == Lower(Strip(e))
            rows == UsersByEmail(email)
        IN
        /\ request' = [route |-> "login", client |-> c, method |-> "POST"]
        /\ IF rows = {} \/ \A row \in rows : ~check_password_hash(row.password_hash, password)
           THEN /\ response' = [status |-> 200, location |-> "login.html",
                                error |-> "Invalid email or password."]
                /\ UNCHANGED <<session, authed>>
           ELSE LET row == CHOOSE u \in rows : TRUE IN
                /\ session' = [session EXCEPT ![c] = SessionOf(row.id, row.email, row.is_admin)]
                /\ authed' = [authed EXCEPT ![c] = @ \/ row.is_admin = 1]
                /\ response' = [status |-> 302, location |-> "home", error |-> ""]
        /\ UNCHANGED <<users, scholarships, seed, conn>>

admin_login ==
    \E c \in Clients, e \in EmailInputs, password \in LoginPasswords :
        LET email == Lower(Strip(e))
            rows == {u \in UsersByEmail(email) : u.is_admin = 1}
        IN
        /\ request' = [route |-> "admin_login", client |-> c, method |-> "POST"]
        /\ IF rows = {} \/ \A row \in rows : ~check_password_hash(row.password_hash, password)
           THEN /\ response' = [status |-> 200, location |-> "admin_login.html",
                                error |-> "Invalid admin credentials."]
                /\ UNCHANGED <<session, authed>>
           ELSE LET row == CHOOSE u \in rows : TRUE IN
                /\ session' = [session EXCEPT ![c] = SessionOf(row.id, row.email, 1)]
                /\ authed' = [authed EXCEPT ![c] = TRUE]
                /\ response' = [status |-> 302, location |-> "admin_dashboard", error |-> ""]
        /\ UNCHANGED <<users, scholarships, seed, conn>>

logout ==
    \E c \in Clients :
        /\ request' = [route |-> "logout", client |-> c, method |-> "GET"]
        /\ session' = [session EXCEPT ![c] = ClearedSession]
        /\ authed' = [authed EXCEPT ![c] = FALSE]
        /\ response' = [status |-> 302, location |-> "home", error |-> ""]
        /\ UNCHANGED <<users, scholarships, seed, conn>>

(***************************************************************************)
(* add_scholarship and edit_scholarship                                    *)
(***************************************************************************)
\* str.replace(' ', '_')
ReplaceSpaces(s) == [i \in 1..Len(s) |-> IF s[i] = " " THEN "_" ELSE s[i]]

\* f"img_{name.replace(' ', '_')}_{image_file.filename}" and the doc_ one.
UploadName(prefix, name, filename) ==
    PyStr(prefix \o <<"_">> \o ReplaceSpaces(name) \o <<"_">> \o filename)

\* float(min_gpa_raw) if min_gpa_raw else None (lines 317-318, 387-388);
\* SQLite stores a nan bound to a REAL column as NULL.
MinGpaOf(form) ==
    LET min_gpa_raw == Strip(form.min_gpa) IN
    IF ~Truthy(min_gpa_raw) THEN None
    ELSE IF FloatOfStr(min_gpa_raw) = NaN THEN None
    ELSE FloatOfStr(min_gpa_raw)

\* The column values both handlers take from the form (lines 308-321,
\* 378-391); image and brochure are the values used when no file is sent.
FormRow(id, form, image, brochure) ==
    LET name == Strip(form.name)
        deadline == Strip(form.deadline)
    IN  Row(id, name, Strip(form.country), PyStr(Strip(form.level)),
            PyStr(Strip(form.field)),
            IF Truthy(deadline) THEN PyStr(deadline) ELSE None,
            PyStr(Strip(form.checklist)), MinGpaOf(form),
            IF form.is_international_only = <<"o", "n">> THEN 1 ELSE 0,
            IF Truthy(form.image_file)
                THEN UploadName(<<"i", "m", "g">>, name, form.image_file) ELSE image,
            IF Truthy(form.brochure_file)
                THEN UploadName(<<"d", "o", "c">>, name, form.brochure_file) ELSE brochure)

\* The row the UPDATE of lines 409-433 writes, for the row r the handler
\* read at line 373: r's file names stay unless the form sends a file.
EditedRow(r, form) == FormRow(r.id, form, r.image_filename, r.brochure_filename)

\* UPDATE scholarships SET ... WHERE id=?
UpdateById(table, row) ==
    [i \in 1..Len(table) |-> IF table[i].id = row.id THEN row ELSE table[i]]

MaxAdminRows == 1

AdminForm(name, min_gpa, image_file, brochure_file) ==
    [name |-> name, country |-> US, level |-> <<>>, field |-> <<>>,
     deadline |-> <<>>, checklist |-> <<>>, min_gpa |-> min_gpa,
     is_international_only |-> <<>>, image_file |-> image_file,
     brochure_file |-> brochure_file]

\* The forms the admin requests of the model post.
AdminForms ==
    {AdminForm(<<"a">>, <<>>, <<>>, <<>>),
     AdminForm(<<"b", " ">>, <<"3">>, <<"p">>, <<>>),
     AdminForm(<<"a">>, <<"x">>, <<>>, <<>>)}

Redirect(location) == [status |-> 302, location |-> location, error |-> ""]

add_scholarship ==
    \E c \in Clients, method \in {"GET", "POST"}, form \in AdminForms :
        /\ Len(scholarships) < MaxAdminRows
        /\ request' = [route |-> "add_scholarship", client |-> c, method |-> method]
        /\ IF ~AdminAllowed(session[c])
           THEN response' = Redirect("admin_login") /\ UNCHANGED scholarships
           ELSE IF method = "GET"
           THEN /\ response' = [status |-> 200, location |-> "add_edit_scholarship.html",
                                error |-> ""]
                /\ UNCHANGED scholarships
           ELSE IF MinGpaOf(form) = ValueError
           THEN /\ response' = [status |-> 500, location |-> "", error |-> "ValueError"]
                /\ UNCHANGED scholarships
           ELSE /\ scholarships' =
                        Append(scholarships, FormRow(NextId(scholarships), form, None, None))
                /\ response' = Redirect("admin_dashboard")
        /\ UNCHANGED <<users, session, authed, seed, conn>>

edit_scholarship ==
    \E c \in Clients, method \in {"GET", "POST"}, form \in AdminForms,
       sid \in 1..(Len(scholarships) + 1) :
        LET r == FetchById(scholarships, sid) IN
        /\ request' = [route |-> "edit_scholarship", client |-> c, method |-> method]
        /\ IF ~AdminAllowed(session[c])
           THEN response' = Redirect("admin_login") /\ UNCHANGED scholarships
           ELSE IF r = None
           THEN response' = Redirect("admin_dashboard") /\ UNCHANGED scholarships
           ELSE IF method = "GET"
           THEN /\ response' = [status |-> 200, location |-> "add_edit_scholarship.html",
                                error |-> ""]
                /\ UNCHANGED scholarships
           ELSE IF MinGpaOf(form) = ValueError
           THEN /\ response' = [status |-> 500, location |-> "", error |-> "ValueError"]
                /\ UNCHANGED scholarships
           ELSE /\ scholarships' = UpdateById(scholarships, EditedRow(r, form))
                /\ response' = Redirect("admin_dashboard")
        /\ UNCHANGED <<users, session, authed, seed, conn>>

InitAdmin ==
    /\ users = SeededUsers
    /\ scholarships = <<>>
    /\ session = [c \in Clients |-> ClearedSession]
    /\ authed = [c \in Clients |-> FALSE]
    /\ request = NoRequest
    /\ response = NoResponse
    /\ seed = [exists |-> FALSE, data |-> <<>>]
    /\ conn = <<>>

NextAdmin ==
    \/ signup
    \/ login
    \/ admin_login
    \/ logout
    \/ add_scholarship
    \/ edit_scholarship

SpecAdmin == InitAdmin /\ [][NextAdmin]_vars

(***************************************************************************)
(* C8: the admin gate                                                      *)
(***************************************************************************)
AdminRoutes == {"add_scholarship", "edit_scholarship"}

\* The session's is_admin flag is truthy.
CarriesAdminFlag(c) == session[c].logged_in /\ session[c].is_admin # 0

\* A session carries the flag only between a successful login as an
\* is_admin=1 user and its next logout; a request to an admin route from a
\* session without a logged-in admin was redirected to the admin login.
GateState ==
    /\ \A c \in Clients : CarriesAdminFlag(c) => authed[c]
    /\ (request.route \in AdminRoutes /\ ~CarriesAdminFlag(request.client))
        => response = Redirect("admin_login")

\* The table changes only in a step handling an add or edit request of a
\* session that carries the flag.
GateStep ==
    scholarships' # scholarships =>
        /\ request'.route \in AdminRoutes
        /\ CarriesAdminFlag(request'.client)

\* C8: the scholarships table is changed only by an add or edit request
\* whose session carries a truthy is_admin flag, which a session carries
\* only after logging in as an is_admin=1 user and before its next logout;
\* every other add or edit request is redirected to the admin login and
\* leaves the table unchanged.
C8_AdminGate == [](GateState) /\ [][GateStep]_vars

\* A signed-up user was redirected from an admin route after an admin in
\* another session had added a listing.
C8_Witness ==
    /\ Len(scholarships) >= 1
    /\ request.route = "edit_scholarship"
    /\ request.method = "POST"
    /\ session[request.client].logged_in
    /\ session[request.client].is_admin = 0
    /\ response = Redirect("admin_login")
    /\ \E c \in Clients : CarriesAdminFlag(c)

(***************************************************************************)
(* Two edit_scholarship POST requests in flight                            *)
(*                                                                         *)
(* Flask serves requests on threads, each with its own connection          *)
(* (get_db, lines 34-38).  A request's steps are the SELECT of line 373,   *)
(* the UPDATE of line 409, which opens a transaction and takes SQLite's    *)
(* write lock, and the commit of line 434.                                 *)
(***************************************************************************)
EditRequests == {1, 2}

EditForms ==
    {AdminForm(name, <<>>, image_file, brochure_file) :
        name \in {<<"a">>, <<"b">>}, image_file \in {<<>>, <<"p">>},
        brochure_file \in {<<>>, <<"q">>}}

\* The listing both requests edit.
EditedId == 1

StoredFiles == {None, PyStr(<<"o", "l", "d">>)}

\* Another connection holds the write lock: its UPDATE is not committed.
WriteLocked(p) == \E o \in EditRequests \ {p} : conn[o].pc = "updated"

edit_read(p) ==
    /\ conn[p].pc = "start"
    /\ AdminAllowed(session[p])
    /\ LET r == FetchById(scholarships, EditedId) IN
        conn' = [conn EXCEPT ![p] =
                    IF r = None THEN [@ EXCEPT !.pc = "done"]
                    ELSE [@ EXCEPT !.pc = "read", !.r = r]]
    /\ UNCHANGED <<users, scholarships, session, authed, request, response, seed>>

edit_update(p) ==
    /\ conn[p].pc = "read"
    /\ ~WriteLocked(p)
    /\ conn' = [conn EXCEPT ![p] =
                    [@ EXCEPT !.pc = "updated", !.pending = EditedRow(conn[p].r, conn[p].form)]]
    /\ UNCHANGED <<users, scholarships, session, authed, request, response, seed>>

edit_commit(p) ==
    /\ conn[p].pc = "updated"
    /\ scholarships' = UpdateById(scholarships, conn[p].pending)
    /\ conn' = [conn EXCEPT ![p] = [@ EXCEPT !.pc = "done"]]
    /\ UNCHANGED <<users, session, authed, request, response, seed>>

\* The table holds the listing to edit and, as listing 2, a copy of it that
\* no request touches.
InitEdit ==
    /\ users = SeededUsers
    /\ \E image \in StoredFiles, brochure \in StoredFiles :
        scholarships =
            TableOf(<<FormRow(0, AdminForm(<<"a">>, <<>>, <<>>, <<>>), image, brochure),
                      FormRow(0, AdminForm(<<"a">>, <<>>, <<>>, <<>>), image, brochure)>>)
    /\ session = [c \in Clients |-> SessionOf(1, AdminEmail, 1)]
    /\ authed = [c \in Clients |-> TRUE]
    /\ request = [route |-> "edit_scholarship", client |-> 1, method |-> "POST"]
    /\ response = NoResponse
    /\ seed = [exists |-> FALSE, data |-> <<>>]
    /\ conn \in [EditRequests -> {[pc |-> "start", r |-> None, form |-> f, pending |-> None] :
                                    f \in EditForms}]

NextEdit ==
    \E p \in EditRequests :
        \/ edit_read(p)
        \/ edit_update(p)
        \/ edit_commit(p)

SpecEdit == InitEdit /\ [][NextEdit]_vars

(***************************************************************************)
(* C10: concurrent edits                                                   *)
(***************************************************************************)
\* The listing as it was before either request.
Before == [scholarships[2] EXCEPT !.id = EditedId]

\* The record left by running request a's edit, then request b's.
OneAfterTheOther(a, b) == EditedRow(EditedRow(Before, conn[a].form), conn[b].form)

\* C10: when two edit_scholarship POST requests on one listing have both
\* finished, the stored record, image_filename and brochure_filename
\* included, is the one left by running the two edits one after the other
\* in some order.
C10_EditsSerialized ==
    (\A p \in EditRequests : conn[p].pc = "done") =>
        scholarships[EditedId] \in {OneAfterTheOther(1, 2), OneAfterTheOther(2, 1)}

====
